---------------------------- MODULE Spec2Model ----------------------------
(***************************************************************************)
(* Model of semantic-search/generate_embeddings.py: the pipeline that adds *)
(* a 'vector' field to every housing record of the JSON files of a         *)
(* directory.                                                              *)
(*                                                                         *)
(* JSON values are tagged records [t, v]: t is "str", "int", "null",       *)
(* "list" or "dict".  A dict is the sequence of its <<key, value>> pairs   *)
(* in insertion order (a Python dict keeps insertion order, json.load      *)
(* keeps the order of the file), with no key twice.  A Python str is       *)
(* [s, sur]: its characters, and whether a lone surrogate is among them    *)
(* (json.load accepts the escape \ud83d on its own; such a str cannot be   *)
(* encoded as UTF-8).                                                      *)
(***************************************************************************)
EXTENDS Integers, Sequences, FiniteSets, TLC

VARIABLES
    phase,          \* "input" before the function under study runs, then "done"
    text_in,        \* create_property_text: the record given
    text_out,       \* create_property_text: the string returned
    ge_max_retries, \* generate_embedding: its max_retries argument
    ge_svc,         \* generate_embedding: the service's behaviour
    ge_out,         \* generate_embedding: its result
    pp_in,          \* process_property: the record given
    pp_use_openai,  \* process_property: its use_openai argument
    pp_client,      \* process_property: whether the global client is set
    pp_svc,         \* process_property: the service's behaviour
    pp_out          \* process_property: its result

VARIABLES
    pc,             \* main: "start", "loop" (the for loop over the files), "done"
    answer,         \* the answer at the y/n prompt, lowered and stripped
    env_key,        \* OPENAI_API_KEY is set in the environment
    typed_key,      \* a non-empty key is typed at the API key prompt
    use_openai,     \* main's use_openai
    client,         \* the global client is set (not None)
    init_raised,    \* initialize_openai raised ValueError
    dir_exists,     \* the output directory exists
    disk,           \* the files of the output directory: name index -> content
    disk0,          \* disk as it was when the run started
    json_files,     \* sorted(json_files), as name indexes
    idx,            \* the number of iterations of the for loop done
    successful,     \* main's counter
    failed,         \* main's counter
    waits,          \* the iterations after which main slept 0.5 s, in order
    opens,          \* name index -> number of open() calls on the file
    log             \* one entry per call of process_json_file, in order: the
                    \* file, the value returned, the stage reached, what the
                    \* file system and the service did, the requests sent

batch_vars == <<pc, answer, env_key, typed_key, use_openai, client,
                init_raised, dir_exists, disk, disk0, json_files, idx,
                successful, failed, waits, opens, log>>

unit_vars == <<phase, text_in, text_out, ge_max_retries, ge_svc, ge_out,
               pp_in, pp_use_openai, pp_client, pp_svc, pp_out>>

vars == <<unit_vars, batch_vars>>

(***************************************************************************)
(* JSON values                                                             *)
(***************************************************************************)
\* a str with no lone surrogate
Str(s) == [s |-> s, sur |-> FALSE]

\* a str holding a lone surrogate
LoneSurrogate(s) == [s |-> s, sur |-> TRUE]

\* a + b on two strs
Cat(a, b) == [s |-> a.s \o b.s, sur |-> a.sur \/ b.sur]

JStr(s) == [t |-> "str", v |-> Str(s)]
JSur(s) == [t |-> "str", v |-> LoneSurrogate(s)]
JInt(n) == [t |-> "int", v |-> n]
JNone == [t |-> "null", v |-> "null"]
JList(xs) == [t |-> "list", v |-> xs]
JDict(pairs) == [t |-> "dict", v |-> pairs]

\* Python truth value of a JSON value: "", 0, null, [] and {} are false.
Truthy(x) ==
    CASE x.t = "str" -> x.v.s # ""
      [] x.t = "int" -> x.v # 0
      [] x.t = "null" -> FALSE
      [] x.t = "list" -> Len(x.v) > 0
      [] x.t = "dict" -> Len(x.v) > 0

\* Python's ==: values of different types are unequal.
PyEq(x, y) == x.t = y.t /\ x.v = y.v

\* What an f-string renders for a value: {value} is str(value).
Format(x) ==
    CASE x.t = "str" -> x.v
      [] x.t = "int" -> Str(ToString(x.v))
      [] x.t = "null" -> Str("None")
      [] OTHER -> Str("<object>")

\* 'key in d'
Has(d, k) == \E i \in 1..Len(d) : d[i][1] = k

\* d.get(key): the value, or JNone when the key is absent
Get(d, k) ==
    IF Has(d, k) THEN d[CHOOSE i \in 1..Len(d) : d[i][1] = k][2] ELSE JNone

\* an assignment that drops the other keys of the dict
SetFresh(d, k, x) == <<<<k, x>>>>

\* d[key] = value: replaces the value in place, or appends a new pair
Set(d, k, x) ==
    IF Has(d, k)
    THEN [i \in 1..Len(d) |-> IF d[i][1] = k THEN <<k, x>> ELSE d[i]]
    ELSE Append(d, <<k, x>>)

\* sep.join(parts)
RECURSIVE JoinWith(_, _)
JoinWith(sep, parts) ==
    IF Len(parts) = 0 THEN Str("")
    ELSE IF Len(parts) = 1 THEN parts[1]
    ELSE Cat(parts[1], Cat(Str(sep), JoinWith(sep, Tail(parts))))

\* a join with another separator
JoinComma(parts) == JoinWith(", ", parts)

\* " | ".join(text_parts)
Join(parts) == JoinWith(" | ", parts)

(***************************************************************************)
(* create_property_text                                                    *)
(***************************************************************************)
\* one 'if ...: text_parts.append(...)' of create_property_text
Part(cond, segment) == IF cond THEN <<segment>> ELSE <<>>

create_property_text(property_data) ==
    Join(
        Part(Truthy(Get(property_data, "title")),
             Cat(Str("Title: "), Format(Get(property_data, "title"))))
     \o Part(Truthy(Get(property_data, "address")),
             Cat(Str("Address: "), Format(Get(property_data, "address"))))
     \o Part(Truthy(Get(property_data, "bhk")),
             Cat(Str("Type: "), Format(Get(property_data, "bhk"))))
     \o Part(Truthy(Get(property_data, "propertyType"))
               /\ ~PyEq(Get(property_data, "propertyType"), JStr("All")),
             Cat(Str("Property Type: "),
                 Format(Get(property_data, "propertyType"))))
     \o Part(Truthy(Get(property_data, "rent")),
             Cat(Str("Rent: ₹"), Format(Get(property_data, "rent"))))
     \o Part(Truthy(Get(property_data, "area")),
             Cat(Cat(Str("Area: "), Format(Get(property_data, "area"))),
                 Str(" sq ft")))
     \o Part(Truthy(Get(property_data, "furnishing")),
             Cat(Str("Furnishing: "), Format(Get(property_data, "furnishing"))))
     \o Part(Truthy(Get(property_data, "_area")),
             Cat(Str("Location: "), Format(Get(property_data, "_area"))))
     \o Part(Truthy(Get(property_data, "_zone")),
             Cat(Str("Zone: "), Format(Get(property_data, "_zone"))))
     \o Part(Truthy(Get(property_data, "deposit")),
             Cat(Str("Deposit: ₹"), Format(Get(property_data, "deposit"))))
     \o Part(Truthy(Get(property_data, "preferredTenants"))
               /\ ~PyEq(Get(property_data, "preferredTenants"), JStr("All"))
               /\ ~PyEq(Get(property_data, "preferredTenants"),
                        JStr("Get Owner Details")),
             Cat(Str("Preferred: "),
                 Format(Get(property_data, "preferredTenants"))))
     \o Part(Truthy(Get(property_data, "maintenance"))
               /\ ~PyEq(Get(property_data, "maintenance"),
                        JStr("No Extra Maintenance")),
             Cat(Str("Maintenance: "),
                 Format(Get(property_data, "maintenance")))))

(***************************************************************************)
(* generate_embedding                                                      *)
(*                                                                         *)
(* The remote service is its behaviour during one call of                  *)
(* generate_embedding: svc[i] is the outcome of the i-th request, either   *)
(* a vector of some length, a RateLimitError or any other exception.       *)
(***************************************************************************)
TargetDim == 1036
RequestedDim == 1536
DefaultMaxRetries == 3

Ok(n) == [kind |-> "ok", len |-> n]
RateLimit == [kind |-> "rate_limit", len |-> 0]
OtherError == [kind |-> "error", len |-> 0]

RECURSIVE Pow2(_)
Pow2(n) == IF n = 0 THEN 1 ELSE 2 * Pow2(n - 1)

\* response.data[0].embedding: entry i of the service's vector is the number i
RemoteVector(n) == [i \in 1..n |-> i]

\* time.sleep(wait_time) after a RateLimitError on attempt 'attempt' (0-based)
RateLimitWait(attempt) == Pow2(attempt)

\* a test that lets the last attempt sleep and retry as well
RetriesLeftOffByOne(attempt, max_retries) == attempt < max_retries

\* 'if attempt < max_retries - 1' of both handlers: retry, else re-raise
RetriesLeft(attempt, max_retries) == attempt < max_retries - 1

\* The loop 'for attempt in range(max_retries)' from iteration 'attempt' on.
\* calls: requests sent; sleeps: the sleeps in order; raised: "" or the class
\* of the exception that leaves the function; value: the vector returned
\* (<<>> with returned_none when the loop ends without an iteration returning).
RECURSIVE AttemptLoop(_, _, _, _, _)
AttemptLoop(attempt, max_retries, svc, calls, sleeps) ==
    IF attempt >= max_retries
    THEN [calls |-> calls, sleeps |-> sleeps, raised |-> "",
          returned_none |-> TRUE, value |-> <<>>]
    ELSE LET r == svc[attempt + 1] IN
         IF r.kind = "ok"
         THEN [calls |-> calls + 1, sleeps |-> sleeps, raised |-> "",
               returned_none |-> FALSE, value |-> RemoteVector(r.len)]
         ELSE IF RetriesLeft(attempt, max_retries)
         THEN AttemptLoop(attempt + 1, max_retries, svc, calls + 1,
                          Append(sleeps, IF r.kind = "rate_limit"
                                         THEN RateLimitWait(attempt)
                                         ELSE 1))
         ELSE [calls |-> calls + 1, sleeps |-> sleeps, raised |-> r.kind,
               returned_none |-> FALSE, value |-> <<>>]

generate_embedding(text, max_retries, svc) ==
    AttemptLoop(0, max_retries, svc, 0, <<>>)

(***************************************************************************)
(* generate_fallback_embedding                                             *)
(***************************************************************************)
\* 'text.encode()': UTF-8 cannot encode a lone surrogate (UnicodeEncodeError)
EncodeRaises(text) == text.sur

\* int(hashlib.sha256(text.encode()).hexdigest()[:8], 16): a number fixed by
\* the text.  The model's digest of a text is its length.
Seed(text) == Len(text.s)

\* np.random.seed(seed); np.random.randn(dimensions), normalised: entry i is
\* the i-th draw of the generator seeded by the text's digest, a value fixed
\* by (seed, i).  raised is "" or the class of the exception that leaves the
\* function.
generate_fallback_embedding(text, dimensions) ==
    IF EncodeRaises(text)
    THEN [raised |-> "unicode_error", value |-> <<>>]
    ELSE [raised |-> "", value |-> [i \in 1..dimensions |-> <<Seed(text), i>>]]

(***************************************************************************)
(* process_property                                                        *)
(*                                                                         *)
(* Its result: the record returned (the same dict, mutated), what leaves   *)
(* the function (escaped: "" or an exception class), the requests and      *)
(* sleeps of generate_embedding, the number of calls of                    *)
(* generate_fallback_embedding, and whether the vector is the service's.   *)
(***************************************************************************)
\* the truncation alone, with no padding of a short vector
FitNoPad(embedding) ==
    IF Len(embedding) > TargetDim THEN SubSeq(embedding, 1, TargetDim)
    ELSE embedding

\* 'embedding[:1036]' / 'embedding + [0.0] * (1036 - len(embedding))'
Fit(embedding) ==
    IF Len(embedding) > TargetDim THEN SubSeq(embedding, 1, TargetDim)
    ELSE IF Len(embedding) < TargetDim
    THEN embedding \o [i \in 1..(TargetDim - Len(embedding)) |-> 0]
    ELSE embedding

\* 'except Exception' catches every exception class the try block can raise:
\* RateLimitError, any other exception of the request, the TypeError of
\* len(None) and the UnicodeEncodeError of text.encode()
Caught(raised) ==
    raised \in {"rate_limit", "error", "type_error", "unicode_error"}

\* a test that never finds the field
AlreadyEmbeddedNever(property_data) == FALSE

\* 'if "vector" in property_data: return property_data'
AlreadyEmbedded(property_data) == Has(property_data, "vector")

\* an exception leaves process_property; the record is as it was
Escapes(property_data, raised, calls, sleeps, fallbacks) ==
    [record |-> property_data, escaped |-> raised, calls |-> calls,
     sleeps |-> sleeps, fallbacks |-> fallbacks, remote |-> FALSE]

\* 'embedding = generate_fallback_embedding(text, 1036);
\* property_data["vector"] = embedding' of the except handler, where the
\* call gives fb: an exception raised in the handler leaves the function
Substituted(property_data, fb, calls, sleeps, fallbacks) ==
    IF fb.raised = ""
    THEN [record |-> Set(property_data, "vector", JList(fb.value)),
          escaped |-> "", calls |-> calls, sleeps |-> sleeps,
          fallbacks |-> fallbacks, remote |-> FALSE]
    ELSE Escapes(property_data, fb.raised, calls, sleeps, fallbacks)

\* the try block has raised 'raised' after 'fallbacks' fallback calls
Handler(property_data, text, raised, calls, sleeps, fallbacks) ==
    IF Caught(raised)
    THEN Substituted(property_data,
                     generate_fallback_embedding(text, TargetDim), calls,
                     sleeps, fallbacks + 1)
    ELSE Escapes(property_data, raised, calls, sleeps, fallbacks)

\* the else branch of the try block, where generate_fallback_embedding gave fb
WithFallback(property_data, text, fb) ==
    IF fb.raised = ""
    THEN [record |-> Set(property_data, "vector", JList(fb.value)),
          escaped |-> "", calls |-> 0, sleeps |-> <<>>, fallbacks |-> 1,
          remote |-> FALSE]
    ELSE Handler(property_data, text, fb.raised, 0, <<>>, 1)

\* the rest of the if branch of the try block once generate_embedding has
\* ended with g and the branch raises 'raised' ("" for nothing)
Handled(property_data, text, g, raised) ==
    IF raised = ""
    THEN [record |-> Set(property_data, "vector", JList(Fit(g.value))),
          escaped |-> "", calls |-> g.calls, sleeps |-> g.sleeps,
          fallbacks |-> 0, remote |-> TRUE]
    ELSE Handler(property_data, text, raised, g.calls, g.sleeps, 0)

\* what the if branch raises: len(None) is a TypeError
Raised(g) == IF g.returned_none THEN "type_error" ELSE g.raised

\* the if branch of the try block from the return of generate_embedding on
FromRemote(property_data, text, g) ==
    Handled(property_data, text, g, Raised(g))

\* process_property from 'text = create_property_text(property_data)' on
Embed(property_data, use, cl, svc, text) ==
    IF use /\ cl
    THEN FromRemote(property_data, text,
                    generate_embedding(text, DefaultMaxRetries, svc))
    ELSE WithFallback(property_data, text,
                      generate_fallback_embedding(text, TargetDim))

process_property(property_data, use, cl, svc) ==
    IF AlreadyEmbedded(property_data)
    THEN [record |-> property_data, escaped |-> "", calls |-> 0,
          sleeps |-> <<>>, fallbacks |-> 0, remote |-> FALSE]
    ELSE Embed(property_data, use, cl, svc, create_property_text(property_data))

(***************************************************************************)
(* process_json_file                                                       *)
(*                                                                         *)
(* A file's content is [kind, items]: kind "array" (a JSON array of items),*)
(* "object" (valid JSON whose top-level value is not an array), "invalid"  *)
(* (not JSON) or "partial" (the beginning of a JSON text, left by a write  *)
(* that failed part way).                                                  *)
(***************************************************************************)
Content(kind, items) == [kind |-> kind, items |-> items]

\* json.load raises on a text that is not JSON
ParseFails(content) == content.kind \in {"invalid", "partial"}

\* 'isinstance(data, list)'
IsArray(content) == content.kind = "array"

\* 'isinstance(property_data, dict)'
IsRecord(x) == x.t = "dict"

\* the value holds a str with a lone surrogate
HoldsSurrogate(x) ==
    CASE x.t = "str" -> x.v.sur
      [] x.t = "dict" ->
           \E i \in 1..Len(x.v) : x.v[i][2].t = "str" /\ x.v[i][2].v.sur
      [] OTHER -> FALSE

\* 'json.dump(data, f, indent=2, ensure_ascii=False)' into a file opened with
\* encoding='utf-8': a str with a lone surrogate is written as it is, and
\* encoding it raises UnicodeEncodeError after a part of the text is written
DumpRaises(items) == \E i \in 1..Len(items) : HoldsSurrogate(items[i])

\* the result of one iteration of the loop over the items, from the result
\* r of process_property
Visited(r) ==
    [item |-> JDict(r.record), escaped |-> r.escaped, calls |-> r.calls,
     counted |-> 1]

\* one iteration of 'for i, property_data in enumerate(data)'
Visit(x, use, cl, svc) ==
    IF IsRecord(x)
    THEN Visited(process_property(x.v, use, cl, svc))
    ELSE [item |-> x, escaped |-> "", calls |-> 0, counted |-> 0]

\* the state of the loop after iteration i, which gave v: the items as they
\* are now, the requests sent, processed_count and the exception that ended
\* the loop ("" for none)
Step(acc, i, v) ==
    [items |-> [acc.items EXCEPT ![i] = v.item],
     calls |-> acc.calls + v.calls,
     processed_count |-> acc.processed_count + v.counted,
     escaped |-> v.escaped]

\* 'for i, property_data in enumerate(data)' from item i on
RECURSIVE VisitFrom(_, _, _, _, _)
VisitFrom(i, svcs, use, cl, acc) ==
    IF i > Len(acc.items) \/ acc.escaped # "" THEN acc
    ELSE VisitFrom(i + 1, svcs, use, cl,
                   Step(acc, i, Visit(acc.items[i], use, cl, svcs[i])))

\* a return of False from process_json_file
Failure(stage, left, nopens, calls, processed_count) ==
    [ok |-> FALSE, content |-> left, opens |-> nopens, stage |-> stage,
     calls |-> calls, processed_count |-> processed_count]

\* process_json_file once the loop over the items has ended in state 'loop'
AfterLoop(content, io, loop) ==
    IF loop.escaped # ""
    THEN Failure("record_error", content, 1, loop.calls, loop.processed_count)
    ELSE IF io = "write_open_error"
    THEN Failure("write_open_error", content, 2, loop.calls,
                 loop.processed_count)
    ELSE IF io = "write_error" \/ DumpRaises(loop.items)
    THEN Failure("write_error", Content("partial", <<>>), 2, loop.calls,
                 loop.processed_count)
    ELSE [ok |-> TRUE, content |-> Content("array", loop.items), opens |-> 2,
          stage |-> "written", calls |-> loop.calls,
          processed_count |-> loop.processed_count]

\* process_json_file on a file of the given content.  io is what the file
\* system does: "ok", "read_error" (open for reading or the read fails),
\* "write_open_error" (open for writing fails, the file is untouched) or
\* "write_error" (open for writing has truncated the file and a write of
\* json.dump fails: the file is left holding some beginning of the new text,
\* which is no JSON text).  svcs[i] is the service's behaviour for item i.  The
\* result: ok (the value returned), the content left on disk, the open()
\* calls made, the stage reached, the requests sent and processed_count.
process_json_file(content, use, cl, io, svcs) ==
    IF io = "read_error" THEN Failure("read_error", content, 1, 0, 0)
    ELSE IF ParseFails(content) THEN Failure("parse_error", content, 1, 0, 0)
    ELSE IF ~IsArray(content) THEN Failure("not_array", content, 1, 0, 0)
    ELSE AfterLoop(content, io,
                   VisitFrom(1, svcs, use, cl,
                             [items |-> content.items, calls |-> 0,
                              processed_count |-> 0, escaped |-> ""]))

(***************************************************************************)
(* main                                                                    *)
(***************************************************************************)
\* A file name is the sequence of its parts, cut so that 'market_report' is
\* a part of the names that hold it; NameUniverse lists the names that can
\* be in the directory in the order sorted() gives them, and a file is known
\* by its index in it.
NameUniverse ==
    <<<<"a", ".json">>, <<"b", ".json">>, <<"market_report", ".json">>,
      <<"notes", ".txt">>, <<"old_", "market_report", "_2", ".json">>>>

Files == 1..Len(NameUniverse)

\* the file of that name
Named(name) == CHOOSE f \in Files : NameUniverse[f] = name

\* output_dir.glob('*.json')
IsJson(f) == NameUniverse[f][Len(NameUniverse[f])] = ".json"

\* a filter that keeps every name
ExcludedNever(f) == FALSE

\* 'market_report' in f.name
Excluded(f) ==
    \E i \in 1..Len(NameUniverse[f]) : NameUniverse[f][i] = "market_report"

\* the file of a non-empty set that sorted() puts first
First(S) == CHOOSE x \in S : \A y \in S : x <= y

\* sorted(json_files)
RECURSIVE Sorted(_)
Sorted(S) ==
    IF S = {} THEN <<>>
    ELSE LET m == First(S) IN <<m>> \o Sorted(S \ {m})

\* initialize_openai: raises ValueError when there is no key in the
\* environment and none is typed at the prompt, else sets the client
initialize_openai(env, typed) ==
    IF env \/ typed
    THEN [raised |-> FALSE, client |-> TRUE]
    ELSE [raised |-> TRUE, client |-> FALSE]

\* a handler that leaves use_openai as it was
ModeKept(wanted, raised) == wanted

\* main's use_openai after 'try: initialize_openai() except: use_openai = False'
ModeAfterInit(wanted, raised) == wanted /\ ~raised

\* 'if use_openai and successful < len(json_files): time.sleep(0.5)'
ShouldWait(use, nsuccessful, nfiles) == use /\ nsuccessful < nfiles

(***************************************************************************)
(* Inputs                                                                  *)
(***************************************************************************)
MaxFields == 2
MaxRetriesArg == 4

FieldOrder ==
    <<"title", "address", "bhk", "propertyType", "rent", "area", "furnishing",
      "_area", "_zone", "deposit", "preferredTenants", "maintenance">>

Keys == {FieldOrder[i] : i \in 1..Len(FieldOrder)}

Sentinels(k) ==
    CASE k = "propertyType" -> {JStr("All")}
      [] k = "preferredTenants" -> {JStr("All"), JStr("Get Owner Details")}
      [] k = "maintenance" -> {JStr("No Extra Maintenance")}
      [] OTHER -> {}

Values(k) == {JStr(""), JInt(0), JStr("Flat"), JInt(15000)} \cup Sentinels(k)

AllValues == UNION {Values(k) : k \in Keys}

\* the dict of the fields ks with the values xs, inserted in that order
DictOf(ks, xs) == [i \in 1..Len(ks) |-> <<ks[i], xs[i]>>]

ExampleRecord ==
    <<<<"title", JStr("2 BHK Flat")>>, <<"rent", JInt(15000)>>,
      <<"furnishing", JStr("Semi-Furnished")>>>>

\* every field, in the reverse of the order of create_property_text
ReversedRecord ==
    <<<<"primary_key", JInt(7)>>,
      <<"maintenance", JStr("500")>>, <<"preferredTenants", JStr("Family")>>,
      <<"deposit", JInt(50000)>>, <<"_zone", JStr("West")>>,
      <<"_area", JStr("Andheri")>>, <<"furnishing", JStr("Full")>>,
      <<"area", JInt(650)>>, <<"rent", JInt(15000)>>,
      <<"propertyType", JStr("Apartment")>>, <<"bhk", JStr("2 BHK")>>,
      <<"address", JStr("Link Road")>>, <<"title", JStr("2 BHK Flat")>>>>

SentinelRecord ==
    <<<<"maintenance", JStr("No Extra Maintenance")>>,
      <<"preferredTenants", JStr("Get Owner Details")>>,
      <<"propertyType", JStr("All")>>, <<"deposit", JNone>>,
      <<"rent", JInt(0)>>, <<"title", JStr("")>>>>

\* a title cut in the middle of an emoji: the text of the record cannot be
\* encoded
BrokenTitleRecord ==
    <<<<"title", JSur("Flat \\ud83d")>>, <<"rent", JInt(15000)>>>>

\* the same in a field that is no part of the text
BrokenNoteRecord ==
    <<<<"title", JStr("Flat")>>, <<"description", JSur("\\ud83d")>>>>

ExampleRecords ==
    {<<>>, ExampleRecord, ReversedRecord, SentinelRecord, BrokenTitleRecord,
     BrokenNoteRecord}

VectorLens == {0, TargetDim - 1, TargetDim, TargetDim + 1, RequestedDim}

FailSeqs(k) == [1..k -> {RateLimit, OtherError}]

\* the behaviours of the service that n requests can observe: failures up to
\* a first success, or n failures
Services(n) ==
    FailSeqs(n) \cup
    UNION {{Append(f, Ok(len)) : f \in FailSeqs(k), len \in VectorLens} :
              k \in 0..(n - 1)}

NoResult ==
    [calls |-> 0, sleeps |-> <<>>, raised |-> "", returned_none |-> FALSE,
     value |-> <<>>]

NoOutcome ==
    [record |-> <<>>, escaped |-> "", calls |-> 0, sleeps |-> <<>>,
     fallbacks |-> 0, remote |-> FALSE]

BatchIdle ==
    /\ pc = "idle" /\ answer = "" /\ env_key = FALSE /\ typed_key = FALSE
    /\ use_openai = FALSE /\ client = FALSE /\ init_raised = FALSE
    /\ dir_exists = FALSE /\ disk = <<>> /\ disk0 = <<>> /\ json_files = <<>>
    /\ idx = 0 /\ successful = 0 /\ failed = 0 /\ waits = <<>>
    /\ opens = <<>> /\ log = <<>>

(***************************************************************************)
(* create_property_text applied to a record                                *)
(***************************************************************************)
TextInit ==
    /\ BatchIdle
    /\ phase = "input"
    \* an example, or any dict of at most MaxFields fields of FieldOrder,
    \* inserted in any order
    /\ \/ text_in \in ExampleRecords
       \/ \E n \in 0..MaxFields :
             \E ks \in [1..n -> Keys] :
                /\ \A i, j \in 1..n : ks[i] = ks[j] => i = j
                /\ \E xs \in [1..n -> AllValues] :
                      /\ \A i \in 1..n : xs[i] \in Values(ks[i])
                      /\ text_in = DictOf(ks, xs)
    /\ text_out = Str("")
    /\ ge_max_retries = 0 /\ ge_svc = <<>> /\ ge_out = NoResult
    /\ pp_in = <<>> /\ pp_use_openai = FALSE /\ pp_client = FALSE
    /\ pp_svc = <<>> /\ pp_out = NoOutcome

ComposeText ==
    /\ phase = "input"
    /\ phase' = "done"
    /\ text_out' = create_property_text(text_in)
    /\ UNCHANGED <<text_in, ge_max_retries, ge_svc, ge_out, pp_in,
                   pp_use_openai, pp_client, pp_svc, pp_out>>
    /\ UNCHANGED batch_vars

SpecText == TextInit /\ [][ComposeText]_vars

(***************************************************************************)
(* generate_embedding applied to a text, against a service                 *)
(***************************************************************************)
EmbedInit ==
    /\ BatchIdle
    /\ phase = "input"
    /\ ge_max_retries \in 0..MaxRetriesArg
    /\ ge_svc \in Services(ge_max_retries)
    /\ ge_out = NoResult
    /\ text_in = <<>> /\ text_out = Str("")
    /\ pp_in = <<>> /\ pp_use_openai = FALSE /\ pp_client = FALSE
    /\ pp_svc = <<>> /\ pp_out = NoOutcome

CallGenerateEmbedding ==
    /\ phase = "input"
    /\ phase' = "done"
    /\ ge_out' = generate_embedding("Title: Flat", ge_max_retries, ge_svc)
    /\ UNCHANGED <<text_in, text_out, ge_max_retries, ge_svc, pp_in,
                   pp_use_openai, pp_client, pp_svc, pp_out>>
    /\ UNCHANGED batch_vars

SpecEmbed == EmbedInit /\ [][CallGenerateEmbedding]_vars

(***************************************************************************)
(* process_property applied to a record                                    *)
(***************************************************************************)
\* a record as it is, or already carrying a 'vector' field (of any value)
WithVector(d) ==
    {d, Append(d, <<"vector", JList(<<1, 2>>)>>),
     <<<<"vector", JNone>>>> \o d}

PropInit ==
    /\ BatchIdle
    /\ phase = "input"
    /\ pp_in \in UNION {WithVector(d) : d \in ExampleRecords}
    /\ pp_use_openai \in BOOLEAN
    /\ pp_client \in BOOLEAN
    /\ pp_svc \in Services(DefaultMaxRetries)
    /\ pp_out = NoOutcome
    /\ text_in = <<>> /\ text_out = Str("")
    /\ ge_max_retries = 0 /\ ge_svc = <<>> /\ ge_out = NoResult

CallProcessProperty ==
    /\ phase = "input"
    /\ phase' = "done"
    /\ pp_out' = process_property(pp_in, pp_use_openai, pp_client, pp_svc)
    /\ UNCHANGED <<text_in, text_out, ge_max_retries, ge_svc, ge_out, pp_in,
                   pp_use_openai, pp_client, pp_svc>>
    /\ UNCHANGED batch_vars

SpecProp == PropInit /\ [][CallProcessProperty]_vars
(***************************************************************************)
(* main over a directory                                                   *)
(***************************************************************************)
RecordWithVector == Append(ExampleRecord, <<"vector", JList(<<1, 2>>)>>)

\* an array with two records to embed, a value that is no record and a
\* record embedded already
MixedArray ==
    Content("array", <<JDict(ExampleRecord), JInt(7), JDict(RecordWithVector),
                       JDict(ReversedRecord)>>)

\* an array whose first record has a text that cannot be encoded
BrokenTitleArray ==
    Content("array", <<JDict(BrokenTitleRecord), JDict(ExampleRecord)>>)

\* an array whose record holds a lone surrogate outside its text
BrokenNoteArray == Content("array", <<JDict(BrokenNoteRecord)>>)

\* what a file that main is to process can hold
Contents ==
    {MixedArray, BrokenTitleArray, BrokenNoteArray, Content("array", <<>>),
     Content("object", <<>>), Content("invalid", <<>>)}

\* the files whose content varies from one directory to another
VariedFiles == {Named(<<"a", ".json">>), Named(<<"b", ".json">>)}

\* the other files, which hold an array of records when present
OtherFiles == Files \ VariedFiles

\* the directories: any of the varied files, each holding any of Contents,
\* with or without the other files
Directories ==
    UNION {{[f \in S \cup O |-> IF f \in S THEN d[f] ELSE MixedArray] :
               d \in [S -> Contents], O \in {{}, OtherFiles}} :
           S \in SUBSET VariedFiles}

\* the behaviours of the service during the processing of one record
BatchServices ==
    {<<Ok(RequestedDim)>>, <<RateLimit, RateLimit, RateLimit>>,
     <<RateLimit, OtherError, OtherError>>}

UnitIdle ==
    /\ phase = "idle"
    /\ text_in = <<>> /\ text_out = Str("")
    /\ ge_max_retries = 0 /\ ge_svc = <<>> /\ ge_out = NoResult
    /\ pp_in = <<>> /\ pp_use_openai = FALSE /\ pp_client = FALSE
    /\ pp_svc = <<>> /\ pp_out = NoOutcome

BatchInit ==
    /\ pc = "start"
    \* any answer but "n" chooses the remote mode; "" is the default
    /\ answer \in {"n", ""}
    /\ env_key \in BOOLEAN
    \* the key prompt is shown only in remote mode with no key in the environment
    /\ typed_key \in (IF answer # "n" /\ ~env_key THEN BOOLEAN ELSE {FALSE})
    /\ use_openai = FALSE
    /\ client = FALSE
    /\ init_raised = FALSE
    /\ dir_exists \in BOOLEAN
    /\ disk \in (IF dir_exists THEN Directories ELSE {<<>>})
    /\ disk0 = disk
    /\ json_files = <<>>
    /\ idx = 0
    /\ successful = 0
    /\ failed = 0
    /\ waits = <<>>
    /\ opens = [f \in Files |-> 0]
    /\ log = <<>>

\* main up to the for loop: the mode prompt, initialize_openai, the directory
\* listing and its two early returns
MainStart ==
    /\ pc = "start"
    /\ LET wanted == answer # "n"
           init == initialize_openai(env_key, typed_key)
           raised == wanted /\ init.raised
           found == IF dir_exists
                    THEN {f \in DOMAIN disk : IsJson(f) /\ ~Excluded(f)}
                    ELSE {}
       IN  /\ use_openai' = ModeAfterInit(wanted, raised)
           /\ client' = (wanted /\ init.client)
           /\ init_raised' = raised
           /\ json_files' = Sorted(found)
           /\ pc' = IF found = {} THEN "done" ELSE "loop"
    /\ idx' = 0 /\ successful' = 0 /\ failed' = 0
    /\ UNCHANGED <<answer, env_key, typed_key, dir_exists, disk, disk0, waits,
                   opens, log>>
    /\ UNCHANGED unit_vars

\* the service behaviours that the items of a file can meet: one per record
\* that will be sent to the service, none for the others
ServicesFor(items, use, cl) ==
    {svcs \in [1..Len(items) -> BatchServices \cup {<<>>}] :
        \A i \in 1..Len(items) :
            (svcs[i] # <<>>) <=>
                (use /\ cl /\ IsRecord(items[i]) /\ ~AlreadyEmbedded(items[i].v))}

\* what the file system can do during one call of process_json_file
IOOutcomes(content) ==
    {"ok", "read_error"}
    \cup (IF IsArray(content) THEN {"write_open_error", "write_error"} ELSE {})

\* one iteration of 'for json_file in sorted(json_files)' on file f, where
\* process_json_file gives r
Iteration(f, svcs, io, r) ==
    /\ disk' = [disk EXCEPT ![f] = r.content]
    /\ opens' = [opens EXCEPT ![f] = @ + r.opens]
    /\ successful' = IF r.ok THEN successful + 1 ELSE successful
    /\ failed' = IF r.ok THEN failed ELSE failed + 1
    /\ waits' = IF ShouldWait(use_openai, successful', Len(json_files))
                THEN Append(waits, idx + 1) ELSE waits
    /\ log' = Append(log, [file |-> f, ok |-> r.ok, stage |-> r.stage,
                           io |-> io,
                           svcs |-> IF r.opens = 1 THEN <<>> ELSE svcs,
                           calls |-> r.calls])
    /\ idx' = idx + 1
    /\ pc' = IF idx + 1 = Len(json_files) THEN "done" ELSE "loop"

ProcessNextFile ==
    /\ pc = "loop"
    /\ \E svcs \in ServicesFor(disk[json_files[idx + 1]].items, use_openai,
                               client) :
       \E io \in IOOutcomes(disk[json_files[idx + 1]]) :
          Iteration(json_files[idx + 1], svcs, io,
                    process_json_file(disk[json_files[idx + 1]], use_openai,
                                      client, io, svcs))
    /\ UNCHANGED <<answer, env_key, typed_key, use_openai, client, init_raised,
                   dir_exists, disk0, json_files>>
    /\ UNCHANGED unit_vars

Init == BatchInit /\ UnitIdle

Next == MainStart \/ ProcessNextFile

Spec == Init /\ [][Next]_vars

(***************************************************************************)
(* Properties of create_property_text                                      *)
(***************************************************************************)
Label(k) ==
    CASE k = "title" -> "Title: "
      [] k = "address" -> "Address: "
      [] k = "bhk" -> "Type: "
      [] k = "propertyType" -> "Property Type: "
      [] k = "rent" -> "Rent: ₹"
      [] k = "area" -> "Area: "
      [] k = "furnishing" -> "Furnishing: "
      [] k = "_area" -> "Location: "
      [] k = "_zone" -> "Zone: "
      [] k = "deposit" -> "Deposit: ₹"
      [] k = "preferredTenants" -> "Preferred: "
      [] k = "maintenance" -> "Maintenance: "

Suffix(k) == IF k = "area" THEN " sq ft" ELSE ""

\* the field is present, not empty (not "", 0 or null), and not its sentinel
Shown(d, k) ==
    /\ Has(d, k)
    /\ Truthy(Get(d, k))
    /\ \A s \in Sentinels(k) : ~PyEq(Get(d, k), s)

\* the segments of fields i.. of FieldOrder that are shown, " | " between them
RECURSIVE SegmentsFrom(_, _, _)
SegmentsFrom(d, i, first) ==
    IF i > Len(FieldOrder) THEN ""
    ELSE IF Shown(d, FieldOrder[i])
    THEN (IF first THEN "" ELSE " | ")
         \o Label(FieldOrder[i]) \o Format(Get(d, FieldOrder[i])).s
         \o Suffix(FieldOrder[i]) \o SegmentsFrom(d, i + 1, FALSE)
    ELSE SegmentsFrom(d, i + 1, first)

\* C9: create_property_text returns the "Label: value" segments of the fields
\* that are present, non-empty (a value that Python counts as false, "", 0 or
\* null, is empty) and not their sentinel, joined by " | ", in the fixed order
\* of FieldOrder whatever the insertion order of the record; a record showing
\* no field gives the empty string; the record {title: "2 BHK Flat", rent:
\* 15000, furnishing: "Semi-Furnished"} gives
\* "Title: 2 BHK Flat | Rent: ₹15000 | Furnishing: Semi-Furnished".
C9_TextIsOrderedSegments ==
    phase = "done" =>
        /\ text_out.s = SegmentsFrom(text_in, 1, TRUE)
        /\ ((\A k \in Keys : ~Shown(text_in, k)) => text_out.s = "")
        /\ (text_in = ExampleRecord =>
              text_out.s = "Title: 2 BHK Flat | Rent: ₹15000 | Furnishing: Semi-Furnished")

\* a record listing its fields in reverse order is rendered in the fixed order
C9_Witness ==
    /\ phase = "done"
    /\ text_in = ReversedRecord
    /\ text_out.s = "Title: 2 BHK Flat | Address: Link Road | Type: 2 BHK"
                  \o " | Property Type: Apartment | Rent: ₹15000"
                  \o " | Area: 650 sq ft | Furnishing: Full | Location: Andheri"
                  \o " | Zone: West | Deposit: ₹50000 | Preferred: Family"
                  \o " | Maintenance: 500"

(***************************************************************************)
(* Properties of generate_embedding                                        *)
(***************************************************************************)
\* the requests of svc among the first n that succeed
OkAt(svc, n) == {i \in 1..n : i <= Len(svc) /\ svc[i].kind = "ok"}

\* the least element of a non-empty set of numbers
Min(S) == CHOOSE x \in S : \A y \in S : x <= y

\* the sleeps after failed requests 1..n: 2^(i-1) after a rate limit, else 1
SleepsAfter(svc, n) ==
    [i \in 1..n |-> IF svc[i].kind = "rate_limit" THEN 2 ^ (i - 1) ELSE 1]

\* C4: generate_embedding with max_retries = N sends at most N requests; a
\* success at request i returns at once after the sleeps of the i-1 failures
\* before it; with N failures it raises the N-th failure after the sleeps of
\* the first N-1 only; a sleep after failed request i is 2^(i-1) for a rate
\* limit and 1 for any other failure.
C4_BoundedRetryWithBackoff ==
    phase = "done" =>
        LET N == ge_max_retries
            ok == OkAt(ge_svc, N)
        IN  /\ ge_out.calls <= N
            /\ (ok # {} =>
                  /\ ge_out.calls = Min(ok)
                  /\ ge_out.raised = ""
                  /\ ~ge_out.returned_none
                  /\ ge_out.sleeps = SleepsAfter(ge_svc, Min(ok) - 1))
            /\ (ok = {} /\ N >= 1 =>
                  /\ ge_out.calls = N
                  /\ ge_out.raised = ge_svc[N].kind
                  /\ ge_out.sleeps = SleepsAfter(ge_svc, N - 1))
            /\ (N = 3 /\ ge_svc = <<RateLimit, RateLimit, Ok(RequestedDim)>> =>
                  ge_out.calls = 3 /\ ge_out.sleeps = <<1, 2>>)

\* a service that always raises a rate-limit failure, max_retries = 3
C4_Witness ==
    /\ phase = "done"
    /\ ge_max_retries = 3
    /\ ge_svc = <<RateLimit, RateLimit, RateLimit>>
    /\ ge_out.calls = 3
    /\ ge_out.sleeps = <<1, 2>>
    /\ ge_out.raised = "rate_limit"

C2_EmbeddedRecordUntouched ==
    phase = "done" /\ Has(pp_in, "vector") =>
        /\ Len(pp_out.record) = Len(pp_in)
        /\ \A i \in 1..Len(pp_in) :
              /\ pp_out.record[i][1] = pp_in[i][1]
              /\ PyEq(pp_out.record[i][2], pp_in[i][2])
        /\ pp_out.calls = 0
        /\ pp_out.fallbacks = 0
        /\ pp_out.escaped = ""

C2_Witness ==
    /\ phase = "done"
    /\ pp_in = Append(ExampleRecord, <<"vector", JList(<<1, 2>>)>>)
    /\ pp_use_openai /\ pp_client
    /\ pp_out.record = pp_in

(***************************************************************************)
(* Properties of process_json_file and main                                *)
(***************************************************************************)
\* the files whose name holds 'market_report'
MarketReports ==
    {Named(<<"market_report", ".json">>),
     Named(<<"old_", "market_report", "_2", ".json">>)}

\* the files main is to process: the .json files of the directory whose name
\* does not hold 'market_report'
Processable ==
    IF dir_exists
    THEN DOMAIN disk0 \cap {Named(<<"a", ".json">>), Named(<<"b", ".json">>)}
    ELSE {}

\* the files process_json_file has been called on
Processed == {log[i].file : i \in 1..Len(log)}

\* no file is given to process_json_file twice
NoRetry == \A i, j \in 1..Len(log) : log[i].file = log[j].file => i = j

\* the vector that generate_fallback_embedding gives for the text of a record
FallbackOf(record) ==
    JList(generate_fallback_embedding(create_property_text(record),
                                      TargetDim).value)

\* C3: no failure leaves process_property, so no call of process_json_file
\* ends on a record; in a file that is written, every record has a 'vector',
\* the records after a failing one included, and a record for which every
\* request to the service failed (rate limit on all attempts included) has
\* the fallback vector of its text.
C3_RecordFailuresNeverEscape ==
    \A i \in 1..Len(log) :
        /\ log[i].stage # "record_error"
        /\ log[i].stage = "written" =>
              LET before == disk0[log[i].file].items
                  after == disk[log[i].file].items
              IN  \A k \in 1..Len(before) :
                      IsRecord(before[k]) =>
                          /\ Has(after[k].v, "vector")
                          /\ (/\ log[i].svcs[k] # <<>>
                              /\ OkAt(log[i].svcs[k], DefaultMaxRetries) = {}
                              => PyEq(Get(after[k].v, "vector"),
                                      FallbackOf(before[k].v)))

\* C5: a call of process_json_file ends in success, with the file rewritten,
\* or in failure; a failure at any step, the write-back included, leaves the
\* file's content as it was before the call; no file is retried and the loop
\* goes on to the files that follow.
C5_FailedFileIsUnchanged ==
    /\ \A i \in 1..Len(log) :
          /\ log[i].ok <=> log[i].stage = "written"
          /\ log[i].ok => opens[log[i].file] = 2
          /\ ~log[i].ok => disk[log[i].file] = disk0[log[i].file]
    /\ NoRetry
    /\ pc = "done" => Processed = Processable

\* C6: a file whose name holds 'market_report' is never opened and never
\* changed; every other .json file is given to process_json_file exactly once
\* by the end of the run; a file whose top-level value is no array is counted
\* as failed, is opened for reading only and keeps its content; the two
\* counters add up to the number of files processed; a directory holding an
\* array a.json, an object b.json and market_report.json gives 1 success and
\* 1 failure when the file system does not fail.
C6_ExcludedSkippedOthersOnce ==
    /\ \A f \in MarketReports :
          /\ opens[f] = 0
          /\ f \notin Processed
          /\ f \in DOMAIN disk => disk[f] = disk0[f]
    /\ NoRetry
    /\ Processed \subseteq Processable
    /\ \A i \in 1..Len(log) :
          disk0[log[i].file].kind = "object" =>
              /\ ~log[i].ok
              /\ opens[log[i].file] = 1
              /\ disk[log[i].file] = disk0[log[i].file]
    /\ successful = Cardinality({i \in 1..Len(log) : log[i].ok})
    /\ failed = Cardinality({i \in 1..Len(log) : ~log[i].ok})
    /\ pc = "done" =>
          /\ Processed = Processable
          /\ successful + failed = Cardinality(Processable)
          /\ (/\ Processable = {Named(<<"a", ".json">>), Named(<<"b", ".json">>)}
              /\ disk0[Named(<<"a", ".json">>)] = MixedArray
              /\ disk0[Named(<<"b", ".json">>)].kind = "object"
              /\ \A i \in 1..Len(log) : log[i].io = "ok"
              => successful = 1 /\ failed = 1)

\* the directory of the example, at the end of a run in remote mode
C6_Witness ==
    /\ pc = "done"
    /\ use_openai /\ client
    /\ DOMAIN disk0 = Files
    /\ disk0[Named(<<"a", ".json">>)] = MixedArray
    /\ disk0[Named(<<"b", ".json">>)].kind = "object"
    /\ successful = 1 /\ failed = 1
    /\ opens[Named(<<"a", ".json">>)] = 2
    /\ opens[Named(<<"b", ".json">>)] = 1
    /\ opens[Named(<<"market_report", ".json">>)] = 0
    /\ opens[Named(<<"old_", "market_report", "_2", ".json">>)] = 0

\* the run chose the remote mode, found no key in the environment and was
\* given none at the prompt, and is past initialize_openai
NoKeyRun == answer # "n" /\ ~env_key /\ ~typed_key /\ pc # "start"

\* C7 (as stated): a run in remote mode with no API key aborts before any
\* processing: no file is opened, read or rewritten.
C7_NoKeyAbortsBeforeProcessing ==
    NoKeyRun =>
        /\ log = <<>>
        /\ \A f \in Files : opens[f] = 0
        /\ disk = disk0

\* C7 (amended): a run in remote mode with no API key goes on in
\* fallback-only mode: initialize_openai raises, main turns use_openai off,
\* every file is processed, no request is sent to the service, there is no
\* wait between files, and a record embedded by the run has the fallback
\* vector of its text.
C7_NoKeyFallsBackToLocalMode ==
    NoKeyRun =>
        /\ init_raised /\ ~use_openai /\ ~client
        /\ waits = <<>>
        /\ pc = "done" => Processed = Processable
        /\ \A i \in 1..Len(log) :
              /\ log[i].calls = 0
              /\ log[i].stage = "written" =>
                    LET before == disk0[log[i].file].items
                        after == disk[log[i].file].items
                    IN  \A k \in 1..Len(before) :
                            IsRecord(before[k]) /\ ~Has(before[k].v, "vector")
                            => PyEq(Get(after[k].v, "vector"),
                                    FallbackOf(before[k].v))

\* such a run has rewritten a file with the vectors it added
C7_Witness ==
    /\ NoKeyRun
    /\ pc = "done"
    /\ successful >= 1
    /\ \E i \in 1..Len(log) :
          /\ log[i].ok
          /\ disk0[log[i].file] = MixedArray
          /\ disk[log[i].file] # disk0[log[i].file]

\* record 'after' is record 'before', with every field in its place and with
\* its value, and at most a 'vector' field added at the end when 'before' had
\* none
KeepsFields(before, after) ==
    /\ \A j \in 1..Len(before) :
          /\ j <= Len(after)
          /\ after[j][1] = before[j][1]
          /\ PyEq(after[j][2], before[j][2])
    /\ \/ Len(after) = Len(before)
       \/ /\ Len(after) = Len(before) + 1
          /\ ~Has(before, "vector")
          /\ after[Len(after)][1] = "vector"

\* C8: after a successful call of process_json_file the file holds an array
\* of the same length as the array read, in the same order; an element that
\* is no record is as it was; a record keeps its fields and their values, the
\* one change possible being a 'vector' field added to a record without one.
C8_WrittenArrayKeepsElements ==
    \A i \in 1..Len(log) :
        log[i].ok =>
            LET before == disk0[log[i].file].items
                after == disk[log[i].file].items
            IN  /\ disk[log[i].file].kind = "array"
                /\ Len(after) = Len(before)
                /\ \A k \in 1..Len(before) :
                      IF IsRecord(before[k])
                      THEN IsRecord(after[k])
                           /\ KeepsFields(before[k].v, after[k].v)
                      ELSE PyEq(after[k], before[k])

\* a file of records and other values is written in remote mode
C8_Witness ==
    \E i \in 1..Len(log) :
        /\ log[i].ok
        /\ log[i].calls > 0
        /\ disk0[log[i].file] = MixedArray
        /\ Len(disk[log[i].file].items) = Len(MixedArray.items)
        /\ Has(disk[log[i].file].items[1].v, "vector")
        /\ PyEq(disk[log[i].file].items[2], JInt(7))

\* C10: in remote mode main waits once after each file that is followed by
\* another one and never after the last file, whatever the files' outcomes;
\* in fallback-only mode it never waits.
C10_WaitsOnlyBetweenFiles ==
    waits = IF use_openai
            THEN [i \in 1..(IF idx < Len(json_files) THEN idx ELSE idx - 1)
                     |-> i]
            ELSE <<>>

=============================================================================
